---------------------------- MODULE Spec2Model ----------------------------
(***************************************************************************)
(* A model of svms/main.py: class SonarVisionMappingSystem.                *)
(*                                                                         *)
(* Numbers.  Sample values are reals in the program; here a sample is an   *)
(* amplitude quantised to an integer of Amplitudes, so that correlation    *)
(* sums, the maximum and the 0.1 * max threshold are exact.  The duration  *)
(* is a rational <<numerator, denominator>>; an angle is a rational        *)
(* multiple of pi, <<numerator, denominator>>; a distance is the rational  *)
(* <<343 * peak, 2 * fs>>.                                                 *)
(***************************************************************************)
EXTENDS Integers, Sequences, FiniteSets

\* ------------------------------------------------------------------ bounds
MaxFs == 2
MaxDurNum == 3
MaxDirections == 2
MaxElevations == 2
MaxSamples == 3
MaxEntries == 5
MaxRecLen == 4
MaxDelay == 2
MaxPad == 1

\* -------------------------------------------------------- program constants
SpeedOfSound == 343
PeakHeightDen == 10

Amplitudes == {-1, 0, 1}
DurDens == {1, 2, 4}
Durations == {<<n, d>> : n \in (-1)..MaxDurNum, d \in DurDens}
SessionDurations == {<<3, 2>>}

VARIABLES
  fs, duration, num_samples, num_directions, elevation_angles,
  signal, responses, distances, horizontal_angles, vertical_angles,
  pc, caller, vi, hi, result, sink, base, calls, call

fields == <<fs, duration, num_samples, num_directions, elevation_angles,
            signal, horizontal_angles, vertical_angles>>
vars == <<fs, duration, num_samples, num_directions, elevation_angles,
          signal, responses, distances, horizontal_angles, vertical_angles,
          pc, caller, vi, hi, result, sink, base, calls, call>>

NoCall == [response |-> <<>>, corr |-> <<>>, distances |-> <<>>,
           raised |-> "idle", kind |-> "none", delay |-> 0]

\* ------------------------------------------------------------ construction
\* int(x): truncation toward zero of the rational a / b, b > 0 or b < 0.
Trunc(a, b) ==
  LET n == IF b < 0 THEN -a ELSE a
      d == IF b < 0 THEN -b ELSE b
  IN IF n >= 0 THEN n \div d ELSE -((-n) \div d)

NumSamplesRound(f, dur) == Trunc(2 * f * dur[1] + dur[2], 2 * dur[2])
\* self.num_samples = int(fs * duration)
NumSamples(f, dur) == Trunc(f * dur[1], dur[2])

\* np.linspace(0, self.duration, self.num_samples) raises ValueError for a
\* negative count; chirp(..., t1=self.duration, method="linear") divides
\* (f1 - f0) by t1 and raises ZeroDivisionError for t1 = 0.
ChirpError(f, dur) ==
  IF NumSamples(f, dur) < 0 THEN "ValueError"
  ELSE IF dur[1] = 0 THEN "ZeroDivisionError"
  ELSE "none"

\* The chirp samples cos(phase(t)): t[0] = 0, so the first sample is cos(0) = 1;
\* the others are any amplitude in [-1, 1].
SignalsOf(n) ==
  IF n <= 0 THEN {<<>>}
  ELSE {s \in [1..n -> Amplitudes] : s[1] = 1}

\* np.linspace(0, 2 * np.pi, num_directions, endpoint=False), in units of pi.
HorizontalAngles(N) == [j \in 1..N |-> <<2 * (j - 1), N>>]

\* np.linspace(-np.pi / 4, np.pi / 4, elevation_angles), in units of pi.
VerticalAngles(M) ==
  [i \in 1..M |-> IF M = 1 THEN <<-1, 4>>
                  ELSE <<2 * (i - 1) - (M - 1), 4 * (M - 1)>>]

\* The angle grids raise ValueError for a negative count.
GridError(N, M) == IF N < 0 \/ M < 0 THEN "ValueError" ELSE "none"

CtorError(f, dur, N, M) ==
  IF ChirpError(f, dur) # "none" THEN ChirpError(f, dur) ELSE GridError(N, M)

\* The fields __init__ sets from its arguments, before anything can raise.
Params(f, dur, N, M) ==
  /\ fs = f
  /\ duration = dur
  /\ num_samples = NumSamples(f, dur)
  /\ num_directions = N
  /\ elevation_angles = M

\* The object __init__ leaves when it returns.
Constructed(s) ==
  /\ signal = s
  /\ responses = <<>>
  /\ distances = <<>>
  /\ horizontal_angles = HorizontalAngles(num_directions)
  /\ vertical_angles = VerticalAngles(elevation_angles)

\* Nothing has been handed to ax.scatter yet.
NoFigure == "nothing"

Control ==
  /\ caller = "none"
  /\ vi = 0
  /\ hi = 0
  /\ result = "none"
  /\ sink = NoFigure
  /\ base = 0
  /\ calls = 0
  /\ call = NoCall

\* --------------------------------------------------------- process_signal
RECURSIVE CorrSum(_, _, _, _)
CorrSum(a, v, i, n) ==
  IF n = 0 THEN 0
  ELSE LET idx == n + i - Len(v)
       IN (IF idx >= 1 /\ idx <= Len(a) THEN a[idx] * v[n] ELSE 0)
          + CorrSum(a, v, i, n - 1)

\* np.correlate(a, v, mode="full"): entry i (1-based) is the sum over n of
\* a[n + i - len(v)] * v[n], the correlation at lag i - len(v).
Correlate(a, v) == [i \in 1..(Len(a) + Len(v) - 1) |-> CorrSum(a, v, i, Len(v))]

\* corr[len(corr) // 2 :]
Retained(c) == SubSeq(c, (Len(c) \div 2) + 1, Len(c))

SeqMax(x) == CHOOSE m \in {x[i] : i \in 1..Len(x)} : \A j \in 1..Len(x) : x[j] <= m

\* x at a 0-based index.
At(x, i) == x[i + 1]

RECURSIVE PlateauEnd(_, _, _)
PlateauEnd(x, i, ahead) ==
  IF ahead < Len(x) - 1 /\ At(x, ahead) = At(x, i)
  THEN PlateauEnd(x, i, ahead + 1)
  ELSE ahead

RECURSIVE LocalMaximaFrom(_, _)
LocalMaximaFrom(x, i) ==
  IF i >= Len(x) - 1 THEN <<>>
  ELSE IF At(x, i - 1) < At(x, i)
       THEN LET ahead == PlateauEnd(x, i, i + 1)
            IN IF At(x, ahead) < At(x, i)
               THEN <<(i + ahead - 1) \div 2>> \o LocalMaximaFrom(x, ahead + 1)
               ELSE LocalMaximaFrom(x, i + 1)
       ELSE LocalMaximaFrom(x, i + 1)

LocalMaximaLoose(x) ==
  LET idx == {i \in 1..(Len(x) - 2) : At(x, i - 1) <= At(x, i) /\ At(x, i + 1) <= At(x, i)}
      F[k \in 0..Len(x)] ==
        IF k = 0 THEN <<>>
        ELSE IF (k - 1) \in idx THEN Append(F[k - 1], k - 1) ELSE F[k - 1]
  IN F[Len(x)]
\* The local maxima of scipy.signal.find_peaks, 0-based, ascending: a sample
\* above its left neighbour whose plateau ends in a lower sample; the first
\* and the last sample are never maxima; a plateau reports its middle.
LocalMaxima(x) == LocalMaximaFrom(x, 1)

\* find_peaks(corr, height=0.1 * np.max(corr)): the maxima p with
\* corr[p] >= 0.1 * max(corr).
FindPeaks(x) ==
  SelectSeq(LocalMaxima(x), LAMBDA p : PeakHeightDen * At(x, p) >= SeqMax(x))

\* (peaks / self.fs) * 343 / 2, as the rational <<343 * peak, 2 * fs>>.
Distance(p, f) == <<SpeedOfSound * p, 2 * f>>

ToDistances(peaks, f) == [k \in 1..Len(peaks) |-> Distance(peaks[k], f)]

\* np.correlate raises ValueError when either array is empty.
ProcessRaises(rec, sig) == Len(rec) = 0 \/ Len(sig) = 0

RetainedCorr(rec, sig) == Retained(Correlate(rec, sig))

PeaksOf(rec, sig) == FindPeaks(RetainedCorr(rec, sig))

process_signal(rec, sig, f) == ToDistances(PeaksOf(rec, sig), f)


\* ------------------------------------------------------------ collect_data
IsSilence(rec) == \A i \in 1..Len(rec) : rec[i] = 0

Silence(n) == [i \in 1..n |-> 0]

\* The reference delayed by d samples inside a frame of the same length.
EchoFrame(sig, d) == [i \in 1..Len(sig) |-> IF i > d THEN sig[i - d] ELSE 0]

\* sd.playrec(self.signal, self.fs, channels=1) records as many frames as it
\* plays: a recording has the length of the signal.  The recordings drawn
\* here are silence and an echo of the reference one sample late.
Recordings(sig) == {Silence(Len(sig)), EchoFrame(sig, 1)}

AppendSampleReset(ds, e) == <<e>>
\* self.distances.append((distances, h_angle, v_angle))
AppendSample(ds, e) == Append(ds, e)

\* self.responses.append(response)
AppendResponse(rs, r) == Append(rs, r)

PairAtSwapped(k) ==
  [v |-> ((k - 1) % elevation_angles) + 1, h |-> ((k - 1) \div elevation_angles) + 1]
\* The k-th angle pair of "for v_angle in vertical_angles: for h_angle in
\* horizontal_angles": indices into the two sequences.
PairAt(k) ==
  [v |-> ((k - 1) \div num_directions) + 1, h |-> ((k - 1) % num_directions) + 1]

GridSize == num_directions * elevation_angles

\* Where control goes when collect_data returns: run() goes on to
\* plot_3d_mapping, a direct call returns to the user.
AfterCollect(c) == IF c = "run" THEN "plot" ELSE "idle"

AfterFaultPlot(c) == IF c = "run" THEN "plot" ELSE "idle"
\* Where control goes when collect_data raises: neither collect_data nor
\* run() catches, so the call ends.
AfterFault(c) == "idle"

FaultSamplesSkip(ds, h, v) == Append(ds, <<<<>>, h, v>>)
\* The ScanSample sequence after record_response raised: line 106 is not reached.
FaultSamples(ds, h, v) == ds

\* The loop has visited every pair after the calls-th iteration.
LastPair(k) == k >= GridSize

\* One entry to collect_data by caller c (a direct call, or run()).
StartCollect(c) ==
  /\ pc = "idle"
  /\ Len(distances) + GridSize <= MaxEntries
  /\ base' = Len(distances)
  /\ calls' = 0
  /\ IF GridSize = 0
     THEN /\ result' = "collected"
          /\ pc' = AfterCollect(c)
          /\ caller' = IF AfterCollect(c) = "idle" THEN "none" ELSE c
          /\ vi' = 0
          /\ hi' = 0
     ELSE /\ result' = "none"
          /\ pc' = "scan"
          /\ caller' = c
          /\ vi' = PairAt(1).v
          /\ hi' = PairAt(1).h
  /\ UNCHANGED <<fields, responses, distances, sink, call>>

CollectData == StartCollect("collect_data")

Run == StartCollect("run")

\* One iteration of the loop body, lines 103-107, that raises nothing.
ScanStep ==
  /\ pc = "scan"
  /\ ~ProcessRaises(signal, signal)
  /\ \E rec \in Recordings(signal) :
       /\ responses' = AppendResponse(responses, rec)
       /\ distances' = AppendSample(distances,
                         <<process_signal(rec, signal, fs),
                           horizontal_angles[hi], vertical_angles[vi]>>)
  /\ calls' = calls + 1
  /\ IF LastPair(calls + 1)
     THEN /\ result' = "collected"
          /\ pc' = AfterCollect(caller)
          /\ caller' = IF AfterCollect(caller) = "idle" THEN "none" ELSE caller
          /\ vi' = 0
          /\ hi' = 0
     ELSE /\ result' = "none"
          /\ pc' = "scan"
          /\ caller' = caller
          /\ vi' = PairAt(calls + 2).v
          /\ hi' = PairAt(calls + 2).h
  /\ UNCHANGED <<fields, sink, base, call>>

\* record_response raises (the device is unavailable, an I/O error).
ScanFault ==
  /\ pc = "scan"
  /\ calls' = calls + 1
  /\ distances' = FaultSamples(distances, horizontal_angles[hi], vertical_angles[vi])
  /\ result' = "HardwareFault"
  /\ pc' = AfterFault(caller)
  /\ caller' = IF AfterFault(caller) = "idle" THEN "none" ELSE caller
  /\ vi' = 0
  /\ hi' = 0
  /\ UNCHANGED <<fields, responses, sink, base, call>>

\* record_response returns the empty recording of an empty signal and
\* np.correlate raises ValueError on it.
ScanValueError ==
  /\ pc = "scan"
  /\ ProcessRaises(signal, signal)
  /\ calls' = calls + 1
  /\ result' = "ValueError"
  /\ pc' = AfterFault(caller)
  /\ caller' = IF AfterFault(caller) = "idle" THEN "none" ELSE caller
  /\ vi' = 0
  /\ hi' = 0
  /\ UNCHANGED <<fields, responses, distances, sink, base, call>>

\* --------------------------------------------------------- plot_3d_mapping
\* One point per distance of one entry, lines 123-129: the distance with
\* the entry's azimuth and elevation (the cos/sin products are not computed).
Project(e) == [k \in 1..Len(e[1]) |-> [r |-> e[1][k], h |-> e[2], v |-> e[3]]]

RECURSIVE Points(_)
\* xs, ys, zs of lines 121-129: the points of every entry, in order.
Points(ds) == IF ds = <<>> THEN <<>> ELSE Points(SubSeq(ds, 1, Len(ds) - 1)) \o Project(ds[Len(ds)])

\* if not self.distances: raise ValueError("No distances calculated. ...")
PlotRaises == distances = <<>>

\* The body of plot_3d_mapping: the guard, else ax.scatter(xs, ys, zs) on a
\* new figure; sink is what the last figure was given.
Plot ==
  /\ IF PlotRaises
     THEN /\ result' = "NoData"
          /\ sink' = sink
     ELSE /\ result' = "plotted"
          /\ sink' = Points(distances)
  /\ pc' = "idle"
  /\ caller' = "none"
  /\ UNCHANGED <<fields, responses, distances, vi, hi, base, calls, call>>

\* plot_3d_mapping called directly.
UserPlot ==
  /\ pc = "idle"
  /\ Plot

\* plot_3d_mapping called by run() after collect_data returned.
RunPlot ==
  /\ pc = "plot"
  /\ Plot

\* ------------------------------------------------------------ the session
Init ==
  /\ \E f \in 0..MaxFs, dur \in SessionDurations,
        N \in 0..MaxDirections, M \in 0..MaxElevations :
       /\ CtorError(f, dur, N, M) = "none"
       /\ NumSamples(f, dur) <= MaxSamples
       /\ Params(f, dur, N, M)
  /\ \E s \in SignalsOf(num_samples) : Constructed(s)
  /\ pc = "idle"
  /\ Control

Next == CollectData \/ Run \/ ScanStep \/ ScanFault \/ ScanValueError \/ UserPlot \/ RunPlot

Spec == Init /\ [][Next]_vars

\* ------------------------------------------------- claims about the session
\* The angles of the k-th pair of the traversal, as an entry carries them.
EntryHasPair(e, i, j) == e[2] = horizontal_angles[j] /\ e[3] = vertical_angles[i]

\* C1, as stated: a scan that completes without a fault leaves exactly M * N
\* entries, and the entry at position (i - 1) * N + j carries (H[j], V[i]).
C1_ScanLeavesExactlyGrid ==
  result = "collected" =>
    /\ Len(distances) = GridSize
    /\ \A i \in 1..elevation_angles, j \in 1..num_directions :
         EntryHasPair(distances[(i - 1) * num_directions + j], i, j)

\* C1, amended: a scan that completes without a fault appends exactly M * N
\* entries to those the session held when the scan started, and the entry at
\* position (i - 1) * N + j among the appended ones carries (H[j], V[i]):
\* vertical angle outer, horizontal angle inner, both in stored order.
C1_ScanAppendsGridInOrder ==
  result = "collected" =>
    /\ Len(distances) = base + GridSize
    /\ \A i \in 1..elevation_angles, j \in 1..num_directions :
         EntryHasPair(distances[base + (i - 1) * num_directions + j], i, j)

C1_Witness ==
  /\ result = "collected"
  /\ num_directions = 2
  /\ elevation_angles = 2
  /\ base > 0

\* C2, as stated: when record_response fails on its k-th invocation of a scan,
\* the sequence holds exactly k - 1 entries, none for the faulting pair, and
\* the scan has stopped.
C2_FaultLeavesKMinusOne ==
  result = "HardwareFault" =>
    /\ pc = "idle"
    /\ Len(distances) = calls - 1

\* C2, amended: when record_response fails on its k-th invocation of a scan,
\* the scan aborts there: the sequence holds the entries it held when the scan
\* started followed by exactly the k - 1 entries of the pairs completed before
\* the fault, no entry is appended for the faulting pair, and the scan has
\* stopped (no later pair is visited).
C2_FaultKeepsCompletedOnly ==
  result = "HardwareFault" =>
    /\ pc = "idle"
    /\ calls >= 1 /\ calls <= GridSize
    /\ Len(distances) = base + calls - 1
    /\ Len(responses) = Len(distances)
    /\ \A i \in 1..elevation_angles, j \in 1..num_directions :
         (i - 1) * num_directions + j <= calls - 1 =>
           EntryHasPair(distances[base + (i - 1) * num_directions + j], i, j)

C2_Witness ==
  /\ result = "HardwareFault"
  /\ calls = 3
  /\ GridSize = 4
  /\ base > 0

\* C3, as stated: a plot requested while the derived point sequence is empty
\* fails with NoData and hands nothing to the sink, also after a scan whose
\* every angle pair produced no range estimate.
C3_EmptyPointsRaiseNoData ==
  [][((UserPlot \/ RunPlot) /\ Points(distances) = <<>>)
       => (result' = "NoData" /\ sink' = sink)]_vars

\* C7: a scan step whose recording is flat zero raises nothing, appends the
\* entry of its angle pair with an empty range sequence, and the scan goes on
\* to the next pair (or returns when that pair was the last).
C7_SilenceAppendsEmptyAndContinues ==
  [][(pc = "scan" /\ Len(responses') = Len(responses) + 1
        /\ IsSilence(responses'[Len(responses')]))
       => /\ distances' = Append(distances,
                            <<<<>>, horizontal_angles[hi], vertical_angles[vi]>>)
          /\ result' \in {"none", "collected"}
          /\ calls' < GridSize =>
               /\ pc' = "scan"
               /\ vi' \in 1..elevation_angles
               /\ hi' \in 1..num_directions
               /\ (vi' - 1) * num_directions + hi' = calls' + 1
          /\ calls' >= GridSize => result' = "collected"]_vars

C7_Witness ==
  /\ pc = "scan"
  /\ calls >= 1
  /\ IsSilence(responses[Len(responses)])
  /\ signal # Silence(Len(signal))
  /\ distances[Len(distances)][1] = <<>>
  /\ Len(distances) = base + calls

\* C9: no step changes the reference signal or the two angle sequences, and
\* every step leaves the ScanSample sequence as it is or adds exactly one
\* entry at its end.
C9_FixedFieldsAppendOnly ==
  /\ [](/\ Len(signal) = num_samples
        /\ Len(horizontal_angles) = num_directions
        /\ Len(vertical_angles) = elevation_angles)
  /\ [][/\ signal' = signal
        /\ horizontal_angles' = horizontal_angles
        /\ vertical_angles' = vertical_angles
        /\ \/ distances' = distances
           \/ /\ Len(distances') = Len(distances) + 1
              /\ SubSeq(distances', 1, Len(distances)) = distances]_vars

C9_Witness ==
  /\ pc = "scan"
  /\ base > 0
  /\ GridSize > 0
  /\ base % GridSize # 0
  /\ Len(distances) > base

\* C10: inside run(), plot_3d_mapping starts only after collect_data has
\* appended the entries of every angle pair of the grid; a fault during the
\* scan ends run() with that fault, and nothing is plotted.
C10_RunPlotsOnlyCompleteScan ==
  /\ [](pc = "plot" =>
          /\ caller = "run"
          /\ result = "collected"
          /\ Len(distances) = base + GridSize
          /\ \A i \in 1..elevation_angles, j \in 1..num_directions :
               EntryHasPair(distances[base + (i - 1) * num_directions + j], i, j))
  /\ [][caller = "run" =>
          /\ (sink' # sink \/ result' \in {"NoData", "plotted"}) => pc = "plot"
          /\ result' \in {"HardwareFault", "ValueError"} =>
               (pc' = "idle" /\ caller' = "none" /\ sink' = sink)]_vars

C10_Witness ==
  /\ pc = "plot"
  /\ GridSize = 4
  /\ base > 0

\* ----------------------------------------------------------- construction
\* The arguments of a call of the constructor, and the fields lines 31-37
\* set from them; nothing else is set yet.
InitCtor ==
  /\ \E f \in (-1)..MaxFs, dur \in Durations,
        N \in (-1)..MaxDirections, M \in (-1)..MaxElevations :
       /\ NumSamples(f, dur) <= MaxSamples
       /\ Params(f, dur, N, M)
  /\ signal = <<>>
  /\ responses = <<>>
  /\ distances = <<>>
  /\ horizontal_angles = <<>>
  /\ vertical_angles = <<>>
  /\ pc = "new"
  /\ Control

\* __init__ returns: lines 38-46.
Construct ==
  /\ pc = "new"
  /\ CtorError(fs, duration, num_directions, elevation_angles) = "none"
  /\ \E s \in SignalsOf(num_samples) : signal' = s
  /\ responses' = <<>>
  /\ distances' = <<>>
  /\ horizontal_angles' = HorizontalAngles(num_directions)
  /\ vertical_angles' = VerticalAngles(elevation_angles)
  /\ pc' = "idle"
  /\ UNCHANGED <<fs, duration, num_samples, num_directions, elevation_angles,
                 caller, vi, hi, result, sink, base, calls, call>>

\* __init__ raises, from generate_chirp_signal or from an angle grid.
ConstructRaises ==
  /\ pc = "new"
  /\ CtorError(fs, duration, num_directions, elevation_angles) # "none"
  /\ result' = CtorError(fs, duration, num_directions, elevation_angles)
  /\ pc' = "failed"
  /\ UNCHANGED <<fields, responses, distances, caller, vi, hi, sink, base, calls, call>>

NextCtor == Construct \/ ConstructRaises

SpecCtor == InitCtor /\ [][NextCtor]_vars

\* C5, as stated: no session is constructed from sample_rate <= 0, from
\* duration <= 0, or with a signal of fewer than 2 samples.
C5_InvalidParametersRejected ==
  pc = "idle" =>
    /\ fs > 0
    /\ duration[1] > 0
    /\ num_samples >= 2
    /\ Len(signal) >= 2

\* C6, as stated: for a positive sample rate and duration the signal has
\* exactly round(sample_rate * duration) samples (a nearest integer of the
\* product, whichever way a tie goes).
C6_LengthIsRounded ==
  (pc = "idle" /\ fs > 0 /\ duration[1] > 0) =>
    LET twice == 2 * (fs * duration[1] - Len(signal) * duration[2])
    IN twice <= duration[2] /\ -twice <= duration[2]

\* C6, amended: for a positive sample rate and duration the signal has
\* exactly int(sample_rate * duration) samples, the product rounded DOWN to
\* an integer, also when the product is not an integer.
C6_LengthIsTruncated ==
  (pc = "idle" /\ fs > 0 /\ duration[1] > 0) =>
    /\ Len(signal) * duration[2] <= fs * duration[1]
    /\ fs * duration[1] < (Len(signal) + 1) * duration[2]

C6_Witness ==
  /\ pc = "idle"
  /\ fs > 0
  /\ duration[1] > 0
  /\ 2 * ((fs * duration[1]) % duration[2]) >= duration[2]
  /\ Len(signal) >= 1

\* ------------------------------------------- process_signal, called alone
\* A recording of d zero samples, the reference, then p zero samples.
DelayedEcho(sig, d, p) == Silence(d) \o sig \o Silence(p)

AnyRecordings == UNION {[1..n -> Amplitudes] : n \in 0..MaxRecLen}

\* What one call of process_signal leaves: its argument, the retained
\* correlation, and what it returns or raises.
CallOf(rec, kind, d) ==
  IF ProcessRaises(rec, signal)
  THEN [response |-> rec, corr |-> <<>>, distances |-> <<>>,
        raised |-> "ValueError", kind |-> kind, delay |-> d]
  ELSE [response |-> rec, corr |-> RetainedCorr(rec, signal),
        distances |-> process_signal(rec, signal, fs),
        raised |-> "none", kind |-> kind, delay |-> d]

\* process_signal(response) on any recording.
ProcessSignal ==
  /\ pc = "idle"
  /\ \E rec \in AnyRecordings : call' = CallOf(rec, "any", 0)
  /\ UNCHANGED <<fields, responses, distances, pc, caller, vi, hi, result, sink, base, calls>>

\* process_signal(response) on the reference delayed by d samples.
ProcessEcho ==
  /\ pc = "idle"
  /\ \E i \in 0..MaxDelay, j \in 0..MaxPad :
       LET d == MaxDelay - i
           p == MaxPad - j
       IN call' = CallOf(DelayedEcho(signal, d, p), "echo", d)
  /\ UNCHANGED <<fields, responses, distances, pc, caller, vi, hi, result, sink, base, calls>>

InitRanger ==
  /\ \E f \in 1..MaxFs, dur \in SessionDurations :
       /\ CtorError(f, dur, 1, 1) = "none"
       /\ NumSamples(f, dur) >= 1
       /\ NumSamples(f, dur) <= MaxSamples
       /\ Params(f, dur, 1, 1)
  /\ \E s \in SignalsOf(num_samples) : Constructed(s)
  /\ pc = "idle"
  /\ Control

NextRanger == ProcessSignal \/ ProcessEcho

SpecRanger == InitRanger /\ [][NextRanger]_vars

\* C4, as stated: for the reference delayed by d >= 0 samples and padded with
\* zeros, process_signal returns a range within one quantization step of
\* (d / sample_rate) * 343 / 2.
C4_DelayedEchoRanged ==
  (call.raised = "none" /\ call.kind = "echo") =>
    \E k \in 1..Len(call.distances) :
      /\ call.distances[k][2] = 2 * fs
      /\ call.distances[k][1] - SpeedOfSound * call.delay <= SpeedOfSound
      /\ SpeedOfSound * call.delay - call.distances[k][1] <= SpeedOfSound

RECURSIVE LagSum(_, _, _, _)
\* The correlation of recording a against reference v at a delay of k
\* samples: the sum over n <= m of a[n + k] * v[n].
LagSum(a, v, k, m) ==
  IF m = 0 THEN 0
  ELSE (IF m + k >= 1 /\ m + k <= Len(a) THEN a[m + k] * v[m] ELSE 0)
       + LagSum(a, v, k, m - 1)

\* C8, as stated: for every recording length R >= 1 and reference length
\* S >= 1 the retained suffix begins at lag 0 and holds only lags >= 0:
\* index k of it is the correlation at a delay of k samples.
C8_RetainedStartsAtLagZero ==
  call.raised = "none" =>
    /\ Len(call.corr) = Len(call.response)
    /\ \A k \in 0..(Len(call.corr) - 1) :
         At(call.corr, k) = LagSum(call.response, signal, k, Len(signal))

=============================================================================
